---------------------------- MODULE Spec2Model ----------------------------
(***************************************************************************)
(* A model of the CHIP-8 interpreter of src/chip8.c: the Chip8 structure,  *)
(* the fetch/decode/execute cycle of emulateInstruction, the timers, and   *)
(* the host loop of main.                                                  *)
(*                                                                         *)
(* Integers keep the width of their C type: uint8_t values are reduced     *)
(* modulo 256 and uint16_t values modulo 65536 where the code stores them. *)
(* An array read outside the array yields a nondeterministic value; an     *)
(* array write outside the array sets undefined, after which the C         *)
(* standard places no requirement on the program and no step is modelled.  *)
(*                                                                         *)
(* The two large arrays, ram and frameBuffer, are held as the function     *)
(* from the indices of their nonzero cells to the values of those cells:   *)
(* a cell outside the domain holds 0.  At reads a cell and Put writes one. *)
(***************************************************************************)
EXTENDS Integers, Sequences, FiniteSets, TLC

(***************************************************************************)
(* Program constants (chip8.h, defaultConfig).                             *)
(***************************************************************************)
WINDOW_WIDTH == 64
WINDOW_HEIGHT == 32
FRAME_RATE == 60
NUM_REGISTERS == 16
RAM_SIZE == 4096
STACK_SIZE == 64
FONT_SIZE == 512
KEYS == 16
CHIP8_KEY_DOWN == 1
CHIP8_KEY_UP == 0
instructionsPerSecond == 700
programEntryPoint == 512

(***************************************************************************)
(* Bounds of the exploration.                                              *)
(***************************************************************************)
MaxSteps == 20
MaxFrames == 5

(***************************************************************************)
(* Fixed-width arithmetic and the bitwise operators of C.                  *)
(***************************************************************************)
U8(v) == v % 256
U16(v) == v % 65536

AndTable == <<<<0, 0>>, <<0, 1>>>>
OrTable == <<<<0, 1>>, <<1, 1>>>>
XorTable == <<<<0, 1>>, <<1, 0>>>>

RECURSIVE Bitwise(_, _, _, _)
Bitwise(t, a, b, w) ==
  IF w = 0 THEN 0
  ELSE t[(a % 2) + 1][(b % 2) + 1] + 2 * Bitwise(t, a \div 2, b \div 2, w - 1)

BitAnd(a, b) == Bitwise(AndTable, a, b, 16)
BitOr(a, b) == Bitwise(OrTable, a, b, 16)
BitXor(a, b) == Bitwise(XorTable, a, b, 16)
Shl(a, k) == a * (2 ^ k)
Shr(a, k) == a \div (2 ^ k)

(***************************************************************************)
(* Arrays by their nonzero cells.                                          *)
(***************************************************************************)
Zeroed == [k \in {} |-> 0]
At(arr, k) == IF k \in DOMAIN arr THEN arr[k] ELSE 0
Put(arr, k, v) ==
  IF v = 0
  THEN [j \in DOMAIN arr \ {k} |-> arr[j]] @@ Zeroed
  ELSE (k :> v) @@ arr

(***************************************************************************)
(* The state.  chip8 is the Chip8 structure; keyPressed and key are the    *)
(* static locals of the 0xFX0A case; stderr is the error stream; pc and i  *)
(* are the position of main and its instruction counter; screen is what    *)
(* the renderer last presented and audio whether the tone plays.           *)
(* accessed records the ram indices used by the last instruction, steps    *)
(* and frames count the instructions and the loop iterations, and cycles   *)
(* is the number of instructions a caller of the interpreter asks for.     *)
(***************************************************************************)
VARIABLES chip8, keyPressed, key, stderr, pc, i, screen, audio,
          accessed, undefined, steps, frames, cycles

vars == <<chip8, keyPressed, key, stderr, pc, i, screen, audio,
          accessed, undefined, steps, frames, cycles>>

hostVars == <<pc, i, screen, audio, frames>>

(***************************************************************************)
(* loadFont: the font array has FONT_SIZE entries of which the initialiser *)
(* gives the first ones; the rest is zero.  All of it is copied to ram.    *)
(***************************************************************************)
font ==
  << 240, 144, 144, 144, 240,
     32, 96, 32, 32, 112,
     240, 16, 240, 128, 240,
     240, 16, 240, 16, 240,
     144, 144, 240, 16, 16,
     240, 128, 240, 16, 240,
     240, 128, 240, 144, 240,
     240, 16, 32, 64, 64,
     240, 144, 240, 144, 240,
     240, 144, 240, 16, 240,
     240, 128, 128, 128, 240,
     224, 144, 144, 144, 224,
     240, 128, 240, 128, 240,
     240, 128, 240, 128, 128 >>

fontByte(k) == IF k < Len(font) THEN font[k + 1] ELSE 0

loadFont(ram) ==
  [a \in {b \in 0..(FONT_SIZE - 1) : fontByte(b) # 0}
          \cup {b \in DOMAIN ram : b >= FONT_SIZE} |->
     IF a < FONT_SIZE THEN fontByte(a) ELSE ram[a]]

(***************************************************************************)
(* loadRom: the image is a sequence of 16-bit words, stored big-endian     *)
(* from programEntryPoint on.                                              *)
(***************************************************************************)
romByte(rom, k) ==
  LET w == rom[(k \div 2) + 1]
  IN IF k % 2 = 0 THEN w \div 256 ELSE w % 256

loadRom(c, rom) ==
  [c EXCEPT
     !.ram = [a \in {b \in DOMAIN c.ram :
                       b < programEntryPoint \/ b >= programEntryPoint + 2 * Len(rom)}
                    \cup {programEntryPoint + k : k \in
                            {j \in 0..(2 * Len(rom) - 1) : romByte(rom, j) # 0}} |->
                IF a >= programEntryPoint /\ a < programEntryPoint + 2 * Len(rom)
                THEN romByte(rom, a - programEntryPoint)
                ELSE c.ram[a]],
     !.programCounter = programEntryPoint]

(***************************************************************************)
(* Chip8 chip8 = {0}, then initChip8.                                      *)
(***************************************************************************)
zeroInstruction == [raw |-> 0, nnn |-> 0, n |-> 0, x |-> 0, y |-> 0, kk |-> 0]

zeroChip8 ==
  [frameBuffer |-> Zeroed,
   V |-> [r \in 0..(NUM_REGISTERS - 1) |-> 0],
   stack |-> [s \in 0..(STACK_SIZE - 1) |-> 0],
   ram |-> Zeroed,
   keypad |-> [k \in 0..(KEYS - 1) |-> CHIP8_KEY_UP],
   indexRegister |-> 0,
   stackPointer |-> 0,
   programCounter |-> 0,
   delayTimer |-> 0,
   soundTimer |-> 0,
   draw |-> FALSE,
   instruction |-> zeroInstruction,
   state |-> "QUIT"]

initChip8(c) ==
  [c EXCEPT !.stackPointer = 0, !.ram = loadFont(c.ram), !.state = "RUNNING"]


(***************************************************************************)
(* Array accesses.  Reading outside an array gives a byte the model does   *)
(* not determine: g maps the parity of the index to such a byte.           *)
(***************************************************************************)
GarbageBytes == {0, 238}
Garbage == [0..1 -> GarbageBytes]
NoGarbage == [p \in 0..1 |-> 0]

inRam(a) == a >= 0 /\ a < RAM_SIZE
inStack(s) == s >= 0 /\ s < STACK_SIZE
inKeypad(k) == k >= 0 /\ k < KEYS

ramRead(c, a, g) == IF inRam(a) THEN At(c.ram, a) ELSE g[a % 2]
stackRead(c, s, g) == IF inStack(s) THEN c.stack[s] ELSE g[0] * 256 + g[1]
keypadRead(c, k, g) == IF inKeypad(k) THEN c.keypad[k] ELSE g[k % 2]

ramWrite(c, a, v) == IF inRam(a) THEN [c EXCEPT !.ram = Put(c.ram, a, U8(v))] ELSE c
stackWrite(c, s, v) == IF inStack(s) THEN [c EXCEPT !.stack[s] = U16(v)] ELSE c

setV(c, r, v) == [c EXCEPT !.V[r] = U8(v)]
setPC(c, v) == [c EXCEPT !.programCounter = U16(v)]
skip(c) == setPC(c, c.programCounter + 2)
bool(b) == IF b THEN 1 ELSE 0

(***************************************************************************)
(* nextInstruction: fetch the big-endian word at programCounter, advance   *)
(* programCounter by 2 and deconstruct the word.                           *)
(***************************************************************************)
nextInstruction(c, g) ==
  LET raw == BitOr(Shl(ramRead(c, c.programCounter, g), 8),
                   ramRead(c, c.programCounter + 1, g))
  IN [c EXCEPT
        !.programCounter = U16(c.programCounter + 2),
        !.instruction = [raw |-> raw,
                         nnn |-> BitAnd(raw, 4095),
                         n |-> BitAnd(raw, 15),
                         x |-> BitAnd(Shr(raw, 8), 15),
                         y |-> BitAnd(Shr(raw, 4), 15),
                         kk |-> BitAnd(raw, 255)]]

X(c) == c.instruction.x
Y(c) == c.instruction.y

(***************************************************************************)
(* case 0x0: 00E0 clears the frame buffer, 00EE returns; any other word of *)
(* the family does nothing.                                                *)
(***************************************************************************)
Op00E0_noRedraw(c) ==
  [c EXCEPT !.frameBuffer = Zeroed]

Op00E0(c) ==
  [c EXCEPT !.frameBuffer = Zeroed, !.draw = TRUE]

Op00EE_postDecrement(c, g) ==
  [c EXCEPT !.stackPointer = c.stackPointer - 1,
            !.programCounter = stackRead(c, c.stackPointer, g)]

Op00EE(c, g) ==
  LET sp == c.stackPointer - 1
  IN [c EXCEPT !.stackPointer = sp, !.programCounter = stackRead(c, sp, g)]

Case0x0(c, g) ==
  IF c.instruction.kk = 224 THEN Op00E0(c)
  ELSE IF c.instruction.kk = 238 THEN Op00EE(c, g)
  ELSE c

(***************************************************************************)
(* case 0x1 .. 0x7, 0x9 .. 0xC.                                            *)
(***************************************************************************)
Op1NNN(c) == setPC(c, c.instruction.nnn)

Op2NNN(c) ==
  LET pushed == stackWrite(c, c.stackPointer, c.programCounter)
  IN [pushed EXCEPT !.stackPointer = c.stackPointer + 1,
                    !.programCounter = c.instruction.nnn]

Op3XKK(c) == IF c.V[X(c)] = c.instruction.kk THEN skip(c) ELSE c
Op4XKK(c) == IF c.V[X(c)] # c.instruction.kk THEN skip(c) ELSE c
Op5XY0(c) == IF c.V[X(c)] = c.V[Y(c)] THEN skip(c) ELSE c
Op6XKK(c) == setV(c, X(c), c.instruction.kk)
Op7XKK(c) == setV(c, X(c), c.V[X(c)] + c.instruction.kk)
Op9XY0(c) == IF c.V[X(c)] # c.V[Y(c)] THEN skip(c) ELSE c
OpANNN(c) == [c EXCEPT !.indexRegister = c.instruction.nnn]
OpBNNN(c) == setPC(c, c.instruction.nnn + c.V[0])
OpCXKK(c, r) == setV(c, X(c), BitAnd(r % 256, c.instruction.kk))

(***************************************************************************)
(* case 0x8: register-to-register operations.  The statements of each case *)
(* are applied in the order of the code, each on the result of the one     *)
(* before.                                                                 *)
(***************************************************************************)
Op8XY0(c) == setV(c, X(c), c.V[Y(c)])
Op8XY1(c) == setV(c, X(c), BitOr(c.V[X(c)], c.V[Y(c)]))
Op8XY2(c) == setV(c, X(c), BitAnd(c.V[X(c)], c.V[Y(c)]))
Op8XY3(c) == setV(c, X(c), BitXor(c.V[X(c)], c.V[Y(c)]))

Op8XY4_flagFirst(c) ==
  LET c1 == setV(c, 15, bool(c.V[X(c)] + c.V[Y(c)] > 255))
  IN setV(c1, X(c), c1.V[X(c)] + c1.V[Y(c)])

Op8XY4(c) ==
  LET carry == bool(c.V[X(c)] + c.V[Y(c)] > 255)
      c1 == setV(c, X(c), c.V[X(c)] + c.V[Y(c)])
  IN setV(c1, 15, carry)

Op8XY5(c) ==
  LET c1 == setV(c, 15, bool(c.V[X(c)] > c.V[Y(c)]))
  IN setV(c1, X(c), c1.V[X(c)] - c1.V[Y(c)] + 256)

Op8XY6(c) ==
  LET c1 == setV(c, 15, BitAnd(c.V[X(c)], 1))
  IN setV(c1, X(c), Shr(c1.V[X(c)], 1))

Op8XY7(c) ==
  LET c1 == setV(c, 15, bool(c.V[Y(c)] > c.V[X(c)]))
  IN setV(c1, X(c), c1.V[Y(c)] - c1.V[X(c)] + 256)

Op8XYE(c) ==
  LET c1 == setV(c, 15, BitAnd(Shr(c.V[X(c)], 7), 1))
  IN setV(c1, X(c), Shl(c1.V[X(c)], 1))

Case0x8(c) ==
  CASE c.instruction.n = 0 -> Op8XY0(c)
    [] c.instruction.n = 1 -> Op8XY1(c)
    [] c.instruction.n = 2 -> Op8XY2(c)
    [] c.instruction.n = 3 -> Op8XY3(c)
    [] c.instruction.n = 4 -> Op8XY4(c)
    [] c.instruction.n = 5 -> Op8XY5(c)
    [] c.instruction.n = 6 -> Op8XY6(c)
    [] c.instruction.n = 7 -> Op8XY7(c)
    [] c.instruction.n = 14 -> Op8XYE(c)
    [] OTHER -> c

(***************************************************************************)
(* case 0xD: draw the n-byte sprite at ram[indexRegister] at the position  *)
(* (V[x] % WINDOW_WIDTH, V[y] % WINDOW_HEIGHT).  d carries the frame       *)
(* buffer and V[0xF] through the two loops.  The inner loop runs j from    *)
(* firstSpriteBit down while j > lastSpriteBit.  V[0xF] is 0 or 1 in d;    *)
(* the loop names it so that d is evaluated before the next iteration.     *)
(***************************************************************************)
firstSpriteBit == 7
lastSpriteBit == 0

RECURSIVE drawBits_or(_, _, _, _, _)
drawBits_or(d, spriteByte, dy, dx, j) ==
  IF j > lastSpriteBit
  THEN LET spriteBit == U8(BitAnd(spriteByte, Shl(1, j)))
           p == dy * WINDOW_WIDTH + dx
           frameBufferByte == At(d.frameBuffer, p)
           d1 == [frameBuffer |-> Put(d.frameBuffer, p,
                                      U8(BitOr(frameBufferByte, spriteBit))),
                  VF |-> IF spriteBit # 0 /\ frameBufferByte # 0
                         THEN bool(spriteBit # 0 /\ frameBufferByte # 0)
                         ELSE d.VF]
       IN IF dx + 1 >= WINDOW_WIDTH \/ d1.VF \notin {0, 1} THEN d1
          ELSE drawBits_or(d1, spriteByte, dy, dx + 1, j - 1)
  ELSE d

RECURSIVE drawBits_noClip(_, _, _, _, _)
drawBits_noClip(d, spriteByte, dy, dx, j) ==
  IF j > lastSpriteBit
  THEN LET spriteBit == U8(BitAnd(spriteByte, Shl(1, j)))
           p == dy * WINDOW_WIDTH + dx
           frameBufferByte == At(d.frameBuffer, p)
           d1 == [frameBuffer |-> Put(d.frameBuffer, p,
                                      U8(BitXor(frameBufferByte, spriteBit))),
                  VF |-> IF spriteBit # 0 /\ frameBufferByte # 0
                         THEN bool(spriteBit # 0 /\ frameBufferByte # 0)
                         ELSE d.VF]
       IN IF d1.VF \notin {0, 1} THEN d1
          ELSE drawBits_noClip(d1, spriteByte, dy, dx + 1, j - 1)
  ELSE d

RECURSIVE drawBits(_, _, _, _, _)
drawBits(d, spriteByte, dy, dx, j) ==
  IF j > lastSpriteBit
  THEN LET spriteBit == U8(BitAnd(spriteByte, Shl(1, j)))
           p == dy * WINDOW_WIDTH + dx
           frameBufferByte == At(d.frameBuffer, p)
           d1 == [frameBuffer |-> Put(d.frameBuffer, p,
                                      U8(BitXor(frameBufferByte, spriteBit))),
                  VF |-> IF spriteBit # 0 /\ frameBufferByte # 0
                         THEN bool(spriteBit # 0 /\ frameBufferByte # 0)
                         ELSE d.VF]
       IN IF dx + 1 >= WINDOW_WIDTH \/ d1.VF \notin {0, 1} THEN d1
          ELSE drawBits(d1, spriteByte, dy, dx + 1, j - 1)
  ELSE d

drawRow(d, c, g, x, dy, row) ==
  drawBits(d, ramRead(c, c.indexRegister + row, g), dy, x, firstSpriteBit)

RECURSIVE drawRows(_, _, _, _, _, _)
drawRows(d, c, g, x, dy, row) ==
  IF row < c.instruction.n
  THEN LET d1 == drawRow(d, c, g, x, dy, row)
       IN IF dy + 1 >= WINDOW_HEIGHT \/ d1.VF \notin {0, 1} THEN d1
          ELSE drawRows(d1, c, g, x, dy + 1, row + 1)
  ELSE d

OpDXYN(c, g) ==
  LET dx == c.V[X(c)] % WINDOW_WIDTH
      dy == c.V[Y(c)] % WINDOW_HEIGHT
      d == drawRows([frameBuffer |-> c.frameBuffer, VF |-> 0], c, g, dx, dy, 0)
  IN [c EXCEPT !.frameBuffer = d.frameBuffer, !.V[15] = d.VF, !.draw = TRUE]

(***************************************************************************)
(* case 0xE: skips on the key whose number is in V[x].                     *)
(***************************************************************************)
OpEX9E(c, g) == IF keypadRead(c, c.V[X(c)], g) # 0 THEN skip(c) ELSE c
OpEXA1(c, g) == IF keypadRead(c, c.V[X(c)], g) = 0 THEN skip(c) ELSE c

Case0xE(c, g) ==
  CASE c.instruction.kk = 158 -> OpEX9E(c, g)
    [] c.instruction.kk = 161 -> OpEXA1(c, g)
    [] OTHER -> c

(***************************************************************************)
(* case 0xF, except 0xFX0A.                                                *)
(***************************************************************************)
OpFX07(c) == setV(c, X(c), c.delayTimer)
OpFX15(c) == [c EXCEPT !.delayTimer = c.V[X(c)]]
OpFX18(c) == [c EXCEPT !.soundTimer = c.V[X(c)]]
OpFX1E(c) == [c EXCEPT !.indexRegister = U16(c.indexRegister + c.V[X(c)])]
OpFX29(c) == [c EXCEPT !.indexRegister = U16(c.V[X(c)] * 5)]

OpFX33(c) ==
  LET bcd0 == c.V[X(c)]
      c1 == ramWrite(c, c.indexRegister + 2, bcd0 % 10)
      bcd1 == U8(bcd0 \div 10)
      c2 == ramWrite(c1, c.indexRegister + 1, bcd1 % 10)
      bcd2 == U8(bcd1 \div 10)
  IN ramWrite(c2, c.indexRegister, bcd2)

RECURSIVE storeRegisters(_, _)
storeRegisters(c, r) ==
  IF r <= X(c)
  THEN storeRegisters(ramWrite(c, c.indexRegister + r, c.V[r]), r + 1)
  ELSE c

RECURSIVE loadRegisters(_, _, _)
loadRegisters(c, g, r) ==
  IF r <= X(c)
  THEN loadRegisters(setV(c, r, ramRead(c, c.indexRegister + r, g)), g, r + 1)
  ELSE c

OpFX55(c) == storeRegisters(c, 0)
OpFX65(c, g) == loadRegisters(c, g, 0)

(***************************************************************************)
(* case 0xF, 0x0A: the wait for a key.  w holds the structure and the two  *)
(* static locals keyPressed and key.  The scan looks for the first pressed *)
(* key if no key is latched.                                               *)
(***************************************************************************)
NoKey == 255

firstPressed(c) ==
  IF \E k \in 0..(KEYS - 1) : c.keypad[k] # 0
  THEN CHOOSE k \in 0..(KEYS - 1) :
         c.keypad[k] # 0 /\ \A l \in 0..(k - 1) : c.keypad[l] = 0
  ELSE NoKey

OpFX0A_noRewind(w, g) ==
  LET c == w.chip8
      found == IF w.key = NoKey THEN firstPressed(c) ELSE NoKey
      kp == IF found # NoKey THEN CHIP8_KEY_DOWN ELSE w.keyPressed
      k == IF found # NoKey THEN found ELSE w.key
  IN IF kp = 0
     THEN [w EXCEPT !.keyPressed = kp, !.key = k]
     ELSE IF keypadRead(c, k, g) = 0
          THEN [w EXCEPT !.chip8 = setPC(c, c.programCounter - 2 + 65536),
                         !.keyPressed = kp, !.key = k]
          ELSE [w EXCEPT !.chip8 = setV(c, X(c), k),
                         !.keyPressed = CHIP8_KEY_UP, !.key = NoKey]

OpFX0A(w, g) ==
  LET c == w.chip8
      found == IF w.key = NoKey THEN firstPressed(c) ELSE NoKey
      kp == IF found # NoKey THEN CHIP8_KEY_DOWN ELSE w.keyPressed
      k == IF found # NoKey THEN found ELSE w.key
  IN IF kp = 0
     THEN [w EXCEPT !.chip8 = setPC(c, c.programCounter - 2 + 65536),
                    !.keyPressed = kp, !.key = k]
     ELSE IF keypadRead(c, k, g) = 0
          THEN [w EXCEPT !.chip8 = setPC(c, c.programCounter - 2 + 65536),
                         !.keyPressed = kp, !.key = k]
          ELSE [w EXCEPT !.chip8 = setV(c, X(c), k),
                         !.keyPressed = CHIP8_KEY_UP, !.key = NoKey]

CaseFchip8(c, g) ==
  CASE c.instruction.kk = 7 -> OpFX07(c)
    [] c.instruction.kk = 21 -> OpFX15(c)
    [] c.instruction.kk = 24 -> OpFX18(c)
    [] c.instruction.kk = 30 -> OpFX1E(c)
    [] c.instruction.kk = 41 -> OpFX29(c)
    [] c.instruction.kk = 51 -> OpFX33(c)
    [] c.instruction.kk = 85 -> OpFX55(c)
    [] c.instruction.kk = 101 -> OpFX65(c, g)
    [] OTHER -> c

Case0xF(w, g) ==
  IF w.chip8.instruction.kk = 10 THEN OpFX0A(w, g)
  ELSE [w EXCEPT !.chip8 = CaseFchip8(w.chip8, g)]

(***************************************************************************)
(* emulateInstruction: fetch, then decode on the top four bits of the      *)
(* word.  w holds the structure, the static locals and the error stream;   *)
(* r is the value of rand() and g the bytes read outside an array.         *)
(***************************************************************************)
family(c) == Shr(c.instruction.raw, 12)

emulateInstruction(w, r, g) ==
  LET c == nextInstruction(w.chip8, g)
  IN CASE family(c) = 0 -> [w EXCEPT !.chip8 = Case0x0(c, g)]
       [] family(c) = 1 -> [w EXCEPT !.chip8 = Op1NNN(c)]
       [] family(c) = 2 -> [w EXCEPT !.chip8 = Op2NNN(c)]
       [] family(c) = 3 -> [w EXCEPT !.chip8 = Op3XKK(c)]
       [] family(c) = 4 -> [w EXCEPT !.chip8 = Op4XKK(c)]
       [] family(c) = 5 -> [w EXCEPT !.chip8 = Op5XY0(c)]
       [] family(c) = 6 -> [w EXCEPT !.chip8 = Op6XKK(c)]
       [] family(c) = 7 -> [w EXCEPT !.chip8 = Op7XKK(c)]
       [] family(c) = 8 -> [w EXCEPT !.chip8 = Case0x8(c)]
       [] family(c) = 9 -> [w EXCEPT !.chip8 = Op9XY0(c)]
       [] family(c) = 10 -> [w EXCEPT !.chip8 = OpANNN(c)]
       [] family(c) = 11 -> [w EXCEPT !.chip8 = OpBNNN(c)]
       [] family(c) = 12 -> [w EXCEPT !.chip8 = OpCXKK(c, r)]
       [] family(c) = 13 -> [w EXCEPT !.chip8 = OpDXYN(c, g)]
       [] family(c) = 14 -> [w EXCEPT !.chip8 = Case0xE(c, g)]
       [] family(c) = 15 -> Case0xF([w EXCEPT !.chip8 = c], g)
       [] OTHER -> [w EXCEPT !.chip8 = c,
                             !.stderr = Append(w.stderr, c.instruction.raw)]

(***************************************************************************)
(* The ram indices an instruction uses, from the index expressions of the  *)
(* code: c0 is the structure before the fetch, c the one after it.         *)
(***************************************************************************)
fetchIndices(c0) == {c0.programCounter, c0.programCounter + 1}

spriteRows(c) ==
  {row \in 0..(c.instruction.n - 1) : (c.V[Y(c)] % WINDOW_HEIGHT) + row < WINDOW_HEIGHT}

ramReads(c) ==
  CASE family(c) = 13 -> {c.indexRegister + row : row \in spriteRows(c)}
    [] family(c) = 15 /\ c.instruction.kk = 101 ->
         {c.indexRegister + r : r \in 0..X(c)}
    [] OTHER -> {}

ramWrites(c) ==
  CASE family(c) = 15 /\ c.instruction.kk = 51 ->
         {c.indexRegister, c.indexRegister + 1, c.indexRegister + 2}
    [] family(c) = 15 /\ c.instruction.kk = 85 ->
         {c.indexRegister + r : r \in 0..X(c)}
    [] OTHER -> {}

writesOutside(c) ==
  \/ \E a \in ramWrites(c) : ~inRam(a)
  \/ family(c) = 2 /\ ~inStack(c.stackPointer)

readsOutside(c0) ==
  LET c == nextInstruction(c0, NoGarbage)
  IN \/ \E a \in fetchIndices(c0) : ~inRam(a)
     \/ \E a \in ramReads(c) : ~inRam(a)
     \/ family(c) = 0 /\ c.instruction.kk = 238 /\ ~inStack(c.stackPointer - 1)
     \/ family(c) = 14 /\ ~inKeypad(c.V[X(c)])

(***************************************************************************)
(* One call of emulateInstruction on the state.                            *)
(***************************************************************************)
EmulateInstruction ==
  /\ ~undefined
  /\ \E g \in (IF readsOutside(chip8) THEN Garbage ELSE {NoGarbage}) :
       LET c == nextInstruction(chip8, g)
       IN \E r \in (IF family(c) = 12 THEN 0..255 ELSE {0}) :
            LET w == emulateInstruction([chip8 |-> chip8, keyPressed |-> keyPressed,
                                         key |-> key, stderr |-> stderr], r, g)
            IN /\ chip8' = w.chip8
               /\ keyPressed' = w.keyPressed
               /\ key' = w.key
               /\ stderr' = w.stderr
               /\ accessed' = fetchIndices(chip8) \cup ramReads(c) \cup ramWrites(c)
               /\ undefined' = writesOutside(c)
               /\ steps' = steps + 1

(***************************************************************************)
(* The interpreter driven one instruction at a time.                       *)
(***************************************************************************)
Step ==
  /\ steps < cycles
  /\ steps < MaxSteps
  /\ EmulateInstruction
  /\ UNCHANGED <<hostVars, cycles>>

(***************************************************************************)
(* handleInput: one polled event.  keymap gives the keypad index of each   *)
(* mapped key.                                                             *)
(***************************************************************************)
keymap ==
  [sym \in {"1", "2", "3", "4", "q", "w", "e", "r", "a", "s", "d", "f",
            "z", "x", "c", "v"} |->
     CASE sym = "1" -> 1 [] sym = "2" -> 2 [] sym = "3" -> 3 [] sym = "4" -> 12
       [] sym = "q" -> 4 [] sym = "w" -> 5 [] sym = "e" -> 6 [] sym = "r" -> 13
       [] sym = "a" -> 7 [] sym = "s" -> 8 [] sym = "d" -> 9 [] sym = "f" -> 14
       [] sym = "z" -> 10 [] sym = "x" -> 0 [] sym = "c" -> 11 [] sym = "v" -> 15]

handleInput(c, event) ==
  CASE event.type = "SDL_QUIT" -> [c EXCEPT !.state = "QUIT"]
    [] event.type = "SDL_KEYDOWN" ->
         IF event.sym = "SPACE"
         THEN [c EXCEPT !.state = IF c.state = "PAUSED" THEN "RUNNING" ELSE "PAUSED"]
         ELSE IF event.sym \in DOMAIN keymap
              THEN [c EXCEPT !.keypad[keymap[event.sym]] = CHIP8_KEY_DOWN]
              ELSE c
    [] event.type = "SDL_KEYUP" ->
         IF event.sym \in DOMAIN keymap
         THEN [c EXCEPT !.keypad[keymap[event.sym]] = CHIP8_KEY_UP]
         ELSE c
    [] OTHER -> c

updateTimers_unguarded(c) ==
  [c EXCEPT !.delayTimer = U8(c.delayTimer + 255), !.soundTimer = U8(c.soundTimer + 255)]

updateTimers(c) ==
  LET c1 == IF c.delayTimer # 0 THEN [c EXCEPT !.delayTimer = c.delayTimer - 1] ELSE c
  IN IF c1.soundTimer # 0 THEN [c1 EXCEPT !.soundTimer = c1.soundTimer - 1] ELSE c1

litPixels(c) ==
  {p \in 0..(WINDOW_WIDTH * WINDOW_HEIGHT - 1) : At(c.frameBuffer, p) # 0}

(***************************************************************************)
(* main: the loop polls one event, skips the frame when paused, else runs  *)
(* instructionsPerSecond / FRAME_RATE instructions, draws, sets the tone   *)
(* and updates the timers.  pc is the position in the loop.                *)
(***************************************************************************)
instructionsPerFrame == instructionsPerSecond \div FRAME_RATE

PolledSyms == {"SPACE", "x", "w", "ESCAPE"}

Events ==
  {[type |-> "SDL_QUIT", sym |-> "none"], [type |-> "SDL_MOUSEMOTION", sym |-> "none"]}
    \cup {[type |-> t, sym |-> sym] : t \in {"SDL_KEYDOWN", "SDL_KEYUP"}, sym \in PolledSyms}

HandleInput_noQuitTest ==
  /\ pc = "while"
  /\ ~undefined
  /\ frames < MaxFrames
  /\ \E event \in Events :
       /\ chip8' = handleInput(chip8, event)
       /\ pc' = IF chip8'.state = "PAUSED" THEN "while" ELSE "for"
       /\ i' = IF chip8'.state = "PAUSED" THEN i ELSE 0
  /\ frames' = frames + 1
  /\ UNCHANGED <<keyPressed, key, stderr, screen, audio, accessed, undefined, steps, cycles>>

HandleInput ==
  /\ pc = "while"
  /\ ~undefined
  /\ chip8.state # "QUIT"
  /\ frames < MaxFrames
  /\ \E event \in Events :
       /\ chip8' = handleInput(chip8, event)
       /\ pc' = IF chip8'.state = "PAUSED" THEN "while" ELSE "for"
       /\ i' = IF chip8'.state = "PAUSED" THEN i ELSE 0
  /\ frames' = frames + 1
  /\ UNCHANGED <<keyPressed, key, stderr, screen, audio, accessed, undefined, steps, cycles>>

Frame ==
  /\ pc = "for"
  /\ i < instructionsPerFrame
  /\ EmulateInstruction
  /\ i' = i + 1
  /\ UNCHANGED <<pc, screen, audio, frames, cycles>>

Draw ==
  /\ pc = "for"
  /\ ~undefined
  /\ i >= instructionsPerFrame
  /\ IF chip8.draw
     THEN screen' = litPixels(chip8) /\ chip8' = [chip8 EXCEPT !.draw = FALSE]
     ELSE UNCHANGED <<screen, chip8>>
  /\ pc' = "sound"
  /\ UNCHANGED <<keyPressed, key, stderr, i, audio, accessed, undefined, steps, frames, cycles>>

Sound ==
  /\ pc = "sound"
  /\ audio' = (chip8.soundTimer # 0)
  /\ pc' = "updateTimers"
  /\ UNCHANGED <<chip8, keyPressed, key, stderr, i, screen, accessed, undefined, steps,
                 frames, cycles>>

UpdateTimers ==
  /\ pc = "updateTimers"
  /\ chip8' = updateTimers(chip8)
  /\ pc' = "while"
  /\ UNCHANGED <<keyPressed, key, stderr, i, screen, audio, accessed, undefined, steps,
                 frames, cycles>>

Cleanup ==
  /\ pc = "while"
  /\ chip8.state = "QUIT"
  /\ pc' = "cleanup"
  /\ UNCHANGED <<chip8, keyPressed, key, stderr, i, screen, audio, accessed, undefined,
                 steps, frames, cycles>>

(***************************************************************************)
(* Program images.  A program is a sequence of 16-bit words.               *)
(***************************************************************************)
Word(f, x, y, n) == f * 4096 + x * 256 + y * 16 + n
LD(x, kk) == 6 * 4096 + x * 256 + kk
JP(nnn) == 4096 + nnn
CALL(nnn) == 2 * 4096 + nnn
LDI(nnn) == 10 * 4096 + nnn
CLS == 224
RET == 238

InitWith(rom, n) ==
  /\ chip8 = loadRom(initChip8(zeroChip8), rom)
  /\ keyPressed = CHIP8_KEY_UP
  /\ key = NoKey
  /\ stderr = <<>>
  /\ pc = "while"
  /\ i = 0
  /\ screen = {}
  /\ audio = FALSE
  /\ accessed = {}
  /\ undefined = FALSE
  /\ steps = 0
  /\ frames = 0
  /\ cycles = n

(***************************************************************************)
(* The arithmetic programs: load two registers, apply one 8XYn; and the     *)
(* four-instruction program 6005 6106 8014 00E0.                           *)
(***************************************************************************)
ByteSamples == {0, 1, 128, 255}
RegSamples == {0, 3, 15}

EndToEnd == <<LD(0, 5), LD(1, 6), Word(8, 0, 1, 4), CLS>>

InitAlu ==
  \/ \E a \in ByteSamples, b \in ByteSamples, x \in RegSamples, y \in RegSamples,
        n \in 0..15 :
       InitWith(<<LD(x, a), LD(y, b), Word(8, x, y, n)>>, 3)
  \/ InitWith(EndToEnd, Len(EndToEnd))

SpecAlu == InitAlu /\ [][Step]_vars

(***************************************************************************)
(* The drawing programs: two draws of two-row sprites kept behind the      *)
(* code, the second at the same or the next column, then a clear; and a    *)
(* one-row sprite at column 7, then one at column 0 whose last column      *)
(* lands on it.                                                            *)
(***************************************************************************)
SpriteSamples == {49152, 33279, 280}
OriginXSamples == {0, 60, 70}
OriginYSamples == {0, 31, 33}
RowCountSamples == {0, 1, 2, 15}

LastColumnSprites == {32769, 32897}

InitDraw ==
  \/ \E vx \in OriginXSamples, vy \in OriginYSamples, n \in RowCountSamples,
        vx2 \in 0..1, s1 \in SpriteSamples, same \in BOOLEAN :
       InitWith(<<LD(0, vx), LD(1, vy), LDI(528), Word(13, 0, 1, n),
                  LD(0, vx + vx2), LDI(IF same THEN 528 ELSE 530), Word(13, 0, 1, n), CLS,
                  s1, 32832>>, 8)
  \/ \E vy \in OriginYSamples, s \in LastColumnSprites :
       InitWith(<<LD(0, 7), LD(1, vy), LDI(528), Word(13, 0, 1, 1),
                  LD(0, 0), LDI(529), Word(13, 0, 1, 1), CLS, s>>, 8)

SpecDraw == InitDraw /\ [][Step]_vars

(***************************************************************************)
(* The subroutine programs: a call of itself, chains of calls that end in  *)
(* returns, returns on the empty stack, and a call nested in a call.       *)
(***************************************************************************)
MaxChain == 3

callChain(k) ==
  [j \in 1..(2 * k + 1) |->
     IF j <= k THEN CALL(programEntryPoint + 2 * (2 * k + 1 - j))
     ELSE IF j = k + 1 THEN JP(programEntryPoint + 2 * k)
     ELSE RET]

nestedCalls == <<CALL(516), JP(514), CALL(520), RET, RET>>

StackPrograms ==
  {<<CALL(programEntryPoint)>>, <<RET>>, <<CALL(516), RET, RET>>, nestedCalls}
    \cup {callChain(k) : k \in 1..MaxChain}

InitStack == \E rom \in StackPrograms : InitWith(rom, MaxSteps)

SpecStack == InitStack /\ [][Step]_vars

(***************************************************************************)
(* The memory programs: load V0..V2, set the index register, optionally    *)
(* add V0 to it, then one instruction that uses it; and jumps to the top   *)
(* of ram.                                                                 *)
(***************************************************************************)
IndexSamples == {768, 4093, 4095}
MemOps == {Word(15, 0, 3, 3), Word(15, 2, 5, 5), Word(15, 2, 6, 5), Word(13, 0, 0, 2),
           Word(15, 1, 5, 5)}

InitMem ==
  \/ \E a \in ByteSamples, b \in {7, 255}, nnn \in IndexSamples, add \in BOOLEAN,
        op \in MemOps :
       InitWith(<<LD(0, a), LD(1, b), LD(2, 9), LDI(nnn),
                  IF add THEN Word(15, 0, 1, 14) ELSE Word(15, 0, 0, 7), op,
                  Word(15, 2, 6, 5)>>, 7)
  \/ \E a \in ByteSamples, nnn \in {768, 4094, 4095} :
       InitWith(<<LD(0, a), Word(11, 0, 0, 0) + nnn>>, 4)
  \/ \E nnn \in {4092, 4094} : InitWith(<<JP(nnn)>>, 4)

SpecMem == InitMem /\ [][Step]_vars

(***************************************************************************)
(* The decoding programs: load V0 and V1, then one word of each family     *)
(* the decoder refines by the low nibble or byte.                          *)
(***************************************************************************)
DecodeWords ==
  {0, 291, 225, 224, Word(5, 0, 1, 0), Word(5, 0, 1, 1), Word(5, 0, 1, 15),
   Word(9, 0, 1, 0), Word(9, 0, 1, 1), Word(8, 0, 1, 8), Word(8, 0, 1, 13),
   Word(8, 0, 1, 15), Word(14, 0, 0, 0), Word(14, 1, 9, 15), Word(14, 0, 9, 14),
   Word(15, 0, 0, 0), Word(15, 1, 15, 15), Word(15, 1, 6, 6), Word(15, 0, 1, 5)}

InitDecode ==
  \E a \in ByteSamples, b \in ByteSamples, w \in DecodeWords :
    InitWith(<<LD(0, a), LD(1, b), w, JP(518), JP(520)>>, 5)

SpecDecode == InitDecode /\ [][Step]_vars

(***************************************************************************)
(* The programs run under main: a key wait, the timers set once, a draw of *)
(* a font glyph, a key skip, the timers set over and over, and the word    *)
(* 0x01E0.                                                                 *)
(***************************************************************************)
HostPrograms ==
  {<<Word(15, 3, 0, 10), LD(4, 1), JP(516)>>,
   <<LD(0, 3), Word(15, 0, 1, 5), Word(15, 0, 1, 8), Word(15, 1, 0, 7), JP(518)>>,
   <<LDI(5), Word(13, 0, 0, 5), JP(516)>>,
   <<LD(0, 5), Word(14, 0, 9, 14), JP(512), CLS, JP(512)>>,
   <<LD(0, 1), Word(15, 0, 1, 5), LD(0, 255), Word(15, 0, 1, 8), JP(512)>>,
   <<Word(0, 1, 14, 0), JP(514)>>}

Init == \E rom \in HostPrograms : InitWith(rom, 0)

Next == HandleInput \/ Frame \/ Draw \/ Sound \/ UpdateTimers \/ Cleanup

Spec == Init /\ [][Next]_vars

(***************************************************************************)
(* Vocabulary of the properties.  fetched is the instruction the next call *)
(* of emulateInstruction decodes; executes holds of the steps that are a   *)
(* call of emulateInstruction.                                             *)
(***************************************************************************)
fetched == nextInstruction(chip8, NoGarbage).instruction
executes == steps' = steps + 1
fetchedFamily == Shr(fetched.raw, 12)
Bit(v, j) == Shr(v, j) % 2
Lit(c, x, y) == At(c.frameBuffer, y * WINDOW_WIDTH + x) # 0
originX == chip8.V[fetched.x] % WINDOW_WIDTH
originY == chip8.V[fetched.y] % WINDOW_HEIGHT

DefinedOpcode(ins) ==
  LET f == Shr(ins.raw, 12)
  IN CASE f = 0 -> ins.raw \in {224, 238}
       [] f \in {5, 9} -> ins.n = 0
       [] f = 8 -> ins.n \in (0..7) \cup {14}
       [] f = 14 -> ins.kk \in {158, 161}
       [] f = 15 -> ins.kk \in {7, 10, 21, 24, 30, 41, 51, 85, 101}
       [] OTHER -> TRUE

\* C1: DXYN draws all 8 bits of every sprite byte, most significant bit
\* first: for every row below N and every column k in 0..7 inside the
\* buffer, the pixel (x0+k, y0+row) is toggled if and only if bit 7-k of
\* ram[I+row] is 1, the least significant bit (k = 7) included.
C1_DrawTogglesAllEightBits ==
  [][(executes /\ fetchedFamily = 13) =>
       \A row \in 0..(fetched.n - 1), k \in 0..7 :
         (originX + k < WINDOW_WIDTH /\ originY + row < WINDOW_HEIGHT) =>
           ((Lit(chip8', originX + k, originY + row)
               # Lit(chip8, originX + k, originY + row))
            <=> Bit(At(chip8.ram, chip8.indexRegister + row), 7 - k) = 1)]_vars

\* C2: every sprite bit of value 1 inverts the on/off state of its pixel,
\* whatever its bit position: a pixel that is on and is hit by a 1-bit of a
\* later draw is off afterwards.  Stated for the bit positions the draw loop
\* visits (columns 0..6 of the sprite byte).
C2_SpriteBitTurnsLitPixelOff ==
  [][(executes /\ fetchedFamily = 13) =>
       \A row \in 0..(fetched.n - 1), k \in 0..6 :
         (/\ originX + k < WINDOW_WIDTH
          /\ originY + row < WINDOW_HEIGHT
          /\ Bit(At(chip8.ram, chip8.indexRegister + row), 7 - k) = 1
          /\ Lit(chip8, originX + k, originY + row))
         => ~Lit(chip8', originX + k, originY + row)]_vars

\* C3: a call 2NNN on a stack that holds 16 return addresses pushes no 17th
\* entry: in every reachable state the stack depth is at most 16.
C3_StackDepthAtMostSixteen == chip8.stackPointer <= 16

\* C4: a return 00EE on the empty stack is fatal: the machine is halted and
\* the stack pointer does not move below the base of the stack.
C4_ReturnOnEmptyStackIsFatal ==
  [][(executes /\ fetched.raw = RET /\ chip8.stackPointer = 0) =>
       (chip8'.state = "QUIT" /\ chip8'.stackPointer >= 0)]_vars

\* C5: once the quit signal has set state to QUIT, main makes no later call
\* of emulateInstruction and no later call of updateTimers, the rest of the
\* loop iteration that polled the signal included.
C5_NothingRunsAfterQuit ==
  [][chip8.state = "QUIT" => (~executes /\ ~(pc = "updateTimers" /\ pc' = "while"))]_vars

\* C6: FX0A completes only on a key that goes from released to pressed
\* while it waits: executed for the first time with a key already held, it
\* keeps waiting, the program counter stays at the FX0A and no register is
\* written.
C6_KeyWaitIgnoresHeldKey ==
  [][(/\ executes
      /\ fetchedFamily = 15 /\ fetched.kk = 10
      /\ ~(Shr(chip8.instruction.raw, 12) = 15 /\ chip8.instruction.kk = 10)
      /\ \E k \in 0..(KEYS - 1) : chip8.keypad[k] # 0)
     => (chip8'.programCounter = chip8.programCounter /\ chip8'.V = chip8.V)]_vars

\* C7: every ram index an instruction uses, in the fetch and in DXYN, FX33,
\* FX55 and FX65, is within 0..0xFFF.
C7_RamIndicesWithinTwelveBits == \A a \in accessed : a \in 0..4095

\* C8: a word that is none of the defined opcodes is reported and is a
\* no-op: apart from the program counter, advanced by 2 in the fetch, and
\* the current instruction, nothing changes.
C8_UndefinedOpcodeIsNoOp ==
  [][(executes /\ ~DefinedOpcode(fetched)) =>
       (/\ chip8' = [chip8 EXCEPT !.programCounter = U16(chip8.programCounter + 2),
                                  !.instruction = fetched]
        /\ UNCHANGED <<keyPressed, key>>
        /\ Len(stderr') = Len(stderr) + 1)]_vars

\* C9: 8XY5 sets VF to 1 if and only if VX >= VY, on the values held before
\* the instruction, so that VX = VY gives 1.  Stated for X other than 0xF.
C9_SubtractFlagIsNoBorrow ==
  [][(executes /\ fetchedFamily = 8 /\ fetched.n = 5 /\ fetched.x # 15) =>
       chip8'.V[15] = bool(chip8.V[fetched.x] >= chip8.V[fetched.y])]_vars

\* C10: for X other than 0xF and every Y, 0xF included, 8XY5 leaves
\* (VX - VY) mod 256 and 8XY7 leaves (VY - VX) mod 256 in VX, on the values
\* held before the instruction.
C10_SubtractStoresDifference ==
  [][(executes /\ fetchedFamily = 8 /\ fetched.x # 15) =>
       (/\ fetched.n = 5 =>
             chip8'.V[fetched.x] = (chip8.V[fetched.x] - chip8.V[fetched.y]) % 256
        /\ fetched.n = 7 =>
             chip8'.V[fetched.x] = (chip8.V[fetched.y] - chip8.V[fetched.x]) % 256)]_vars

\* C11: 8XY4 with X other than 0xF, Y = X and Y = 0xF included: afterwards
\* VF is 1 if and only if the sum of the values VX and VY held before the
\* instruction exceeds 255, and VX is that sum mod 256.
C11_AddSetsCarryAndSum ==
  [][(executes /\ fetchedFamily = 8 /\ fetched.n = 4 /\ fetched.x # 15) =>
       (/\ chip8'.V[15] = bool(chip8.V[fetched.x] + chip8.V[fetched.y] > 255)
        /\ chip8'.V[fetched.x] = (chip8.V[fetched.x] + chip8.V[fetched.y]) % 256)]_vars

\* C11 witness: an 8XY4 with Y = 0xF and X below 0xF has produced a carry.
C11_CarryFromFlagOperand ==
  /\ steps = 3
  /\ Shr(chip8.instruction.raw, 12) = 8 /\ chip8.instruction.n = 4
  /\ chip8.instruction.x # 15 /\ chip8.instruction.y = 15
  /\ chip8.V[15] = 1 /\ chip8.V[chip8.instruction.x] = 0

\* The program rom is the one in ram and has been run to its last word.
ran(rom) ==
  /\ cycles = Len(rom)
  /\ steps = Len(rom)
  /\ \A k \in 0..(2 * Len(rom) - 1) :
       At(chip8.ram, programEntryPoint + k) = romByte(rom, k)

\* C12 as stated: after the 4 instructions of 6005 6106 8014 00E0 register
\* 0 is 7 (5|6), every pixel is off, draw is set and the program counter is
\* 0x208.
C12_EndToEndRegisterIsOr ==
  ran(EndToEnd) =>
    (/\ chip8.V[0] = 7
     /\ litPixels(chip8) = {}
     /\ chip8.draw
     /\ chip8.programCounter = 520)

\* C12 amended: after the 4 instructions of 6005 6106 8014 00E0 register 0
\* is 11 (5+6, 8014 being the add), every pixel is off, draw is set and the
\* program counter is 0x208.
C12_EndToEndRegisterIsSum ==
  ran(EndToEnd) =>
    (/\ chip8.V[0] = 11
     /\ litPixels(chip8) = {}
     /\ chip8.draw
     /\ chip8.programCounter = 520)

\* C12 witness: the program has run its four instructions, the last one
\* fetched being 00E0.
C12_EndToEndHasRun == ran(EndToEnd) /\ chip8.instruction.raw = CLS

\* The digit each row of the font table is the glyph of, as the table's
\* comments label the rows.
glyphDigit == <<0, 1, 2, 3, 4, 5, 6, 7, 8, 9, 12, 13, 14, 15>>

\* C13: before the first fetch, ram holds the font table of 16 glyphs of 5
\* bytes in bytes 0..79: for every hexadecimal digit d the 5 bytes from 5*d
\* on, where FX29 with VX = d points the index register, are the glyph of d.
C13_FontHoldsSixteenGlyphs ==
  steps = 0 =>
    \A d \in 0..15 :
      \E row \in 1..Len(glyphDigit) :
        /\ glyphDigit[row] = d
        /\ \A j \in 0..4 : At(chip8.ram, 5 * d + j) = font[5 * (row - 1) + j + 1]

\* C14: after DXYN (X, Y other than 0xF) VF is 1 if and only if a sprite
\* bit of value 1, in any row and any of the 8 columns that falls inside
\* the buffer, was applied to a pixel that was on; a draw touches a pixel
\* at most once, so the pixel's state is the one before the instruction.
C14_CollisionFlagCoversWholeSprite ==
  [][(executes /\ fetchedFamily = 13) =>
       (chip8'.V[15] = 1 <=>
          \E row \in 0..(fetched.n - 1), k \in 0..7 :
            /\ originX + k < WINDOW_WIDTH
            /\ originY + row < WINDOW_HEIGHT
            /\ Bit(At(chip8.ram, chip8.indexRegister + row), 7 - k) = 1
            /\ Lit(chip8, originX + k, originY + row))]_vars

\* C15: drawing is self-inverse: once a DXYN with X, Y other than 0xF has
\* been executed, executing the same DXYN again, with the same VX, VY,
\* index register and sprite bytes, leaves the frame buffer equal, cell for
\* cell, to the buffer before the first of the two draws.
C15_DrawTwiceRestoresBuffer ==
  [][(executes /\ fetchedFamily = 13 /\ fetched.x # 15 /\ fetched.y # 15) =>
       OpDXYN(chip8', NoGarbage).frameBuffer = chip8.frameBuffer]_vars

\* C15 witness: the second of two draws of the same sprite at the same
\* place has found lit pixels and has left the frame buffer empty again.
C15_SecondDrawErasedFirst ==
  /\ steps = 7
  /\ Shr(chip8.instruction.raw, 12) = 13 /\ chip8.instruction.n > 0
  /\ chip8.V[15] = 1
  /\ chip8.frameBuffer = Zeroed

\* The steps of main that are the call of updateTimers.
ticks == pc = "updateTimers" /\ pc' = "while"

\* C16: a tick takes 1 from each timer that is not 0 and leaves a timer
\* that is 0 at 0; under any interleaving of ticks and of the writes of
\* FX15 and FX18 both timers stay within 0..255, and no tick wraps a timer
\* to 255.
C16_TickDecrementsToZero ==
  [][/\ ticks =>
          /\ chip8'.delayTimer = IF chip8.delayTimer = 0 THEN 0 ELSE chip8.delayTimer - 1
          /\ chip8'.soundTimer = IF chip8.soundTimer = 0 THEN 0 ELSE chip8.soundTimer - 1
     /\ chip8'.delayTimer \in 0..255
     /\ chip8'.soundTimer \in 0..255]_vars

\* C16 witness: the timers were set to 3 once (V0), the program has read
\* the delay timer as 0 afterwards (V1), and a further tick has left both
\* timers at 0.
C16_CountedDownAndStayedZero ==
  /\ pc = "while" /\ frames = 5
  /\ chip8.V[0] = 3 /\ chip8.V[1] = 0
  /\ chip8.instruction.raw \in {Word(15, 1, 0, 7), JP(518)}
  /\ chip8.delayTimer = 0 /\ chip8.soundTimer = 0

\* C17: call and return pair up in LIFO order.  A 2NNN fetched at address A
\* with depth d below 16 sets the program counter to NNN, stores A+2 in
\* entry d and makes the depth d+1; a 00EE at depth d+1 sets the program
\* counter to entry d and makes the depth d; both leave the entries below d
\* as they were, so the return matched to a call finds the call's A+2.
C17_CallAndReturnPairUp ==
  [][/\ (executes /\ fetchedFamily = 2 /\ chip8.stackPointer \in 0..15) =>
          /\ chip8'.programCounter = fetched.nnn
          /\ chip8'.stackPointer = chip8.stackPointer + 1
          /\ chip8'.stack[chip8.stackPointer] = chip8.programCounter + 2
          /\ \A s \in 0..(chip8.stackPointer - 1) : chip8'.stack[s] = chip8.stack[s]
     /\ (executes /\ fetched.raw = RET /\ chip8.stackPointer \in 1..16) =>
          /\ chip8'.programCounter = chip8.stack[chip8.stackPointer - 1]
          /\ chip8'.stackPointer = chip8.stackPointer - 1
          /\ \A s \in 0..(chip8.stackPointer - 2) : chip8'.stack[s] = chip8.stack[s]]_vars

\* C17 witness: the call at 0x200 and the call at 0x204 nested in it have
\* both been returned from, the inner one to 0x206 and the outer one to
\* 0x202.
C17_NestedCallsReturned ==
  /\ \A k \in 0..(2 * Len(nestedCalls) - 1) :
       At(chip8.ram, programEntryPoint + k) = romByte(nestedCalls, k)
  /\ steps = 4
  /\ chip8.instruction.raw = RET
  /\ chip8.programCounter = 514
  /\ chip8.stackPointer = 0
  /\ chip8.stack[0] = 514 /\ chip8.stack[1] = 518

\* C18: FX55 writes V0..VX to ram[I .. I+X] and FX65 reads ram[I .. I+X]
\* into V0..VX; both leave the index register unchanged; FX55 changes no
\* ram cell outside I..I+X and no register; FX65 changes no register above
\* X and no ram cell; and FX55 followed by FX65 with the same X leaves
\* V0..VX unchanged.
C18_BlockTransferFrame ==
  [][/\ (executes /\ fetchedFamily = 15 /\ fetched.kk = 85) =>
          /\ chip8'.indexRegister = chip8.indexRegister
          /\ chip8'.V = chip8.V
          /\ \A r \in 0..fetched.x :
               /\ inRam(chip8.indexRegister + r)
               /\ At(chip8'.ram, chip8.indexRegister + r) = chip8.V[r]
          /\ \A a \in (DOMAIN chip8.ram \cup DOMAIN chip8'.ram)
                        \ {chip8.indexRegister + r : r \in 0..fetched.x} :
               At(chip8'.ram, a) = At(chip8.ram, a)
          /\ \A r \in 0..fetched.x : OpFX65(chip8', NoGarbage).V[r] = chip8.V[r]
     /\ (executes /\ fetchedFamily = 15 /\ fetched.kk = 101) =>
          /\ chip8'.indexRegister = chip8.indexRegister
          /\ chip8'.ram = chip8.ram
          /\ \A r \in 0..fetched.x :
               /\ inRam(chip8.indexRegister + r)
               /\ chip8'.V[r] = At(chip8.ram, chip8.indexRegister + r)
          /\ \A r \in (fetched.x + 1)..(NUM_REGISTERS - 1) : chip8'.V[r] = chip8.V[r]]_vars

\* C19: FX33 stores the decimal digits of v = VX: afterwards ram[I] is
\* v div 100, ram[I+1] is (v div 10) mod 10 and ram[I+2] is v mod 10, and
\* the registers, the index register and every other ram cell are as they
\* were.
C19_BcdWritesThreeDigits ==
  [][(executes /\ fetchedFamily = 15 /\ fetched.kk = 51) =>
       LET v == chip8.V[fetched.x]
           I == chip8.indexRegister
       IN /\ inRam(I) /\ inRam(I + 1) /\ inRam(I + 2)
          /\ At(chip8'.ram, I) = v \div 100
          /\ At(chip8'.ram, I + 1) = (v \div 10) % 10
          /\ At(chip8'.ram, I + 2) = v % 10
          /\ chip8'.V = chip8.V
          /\ chip8'.indexRegister = I
          /\ \A a \in (DOMAIN chip8.ram \cup DOMAIN chip8'.ram) \ {I, I + 1, I + 2} :
               At(chip8'.ram, a) = At(chip8.ram, a)]_vars

\* The steps of main that are the call of handleInput.
polls == pc = "while" /\ frames' = frames + 1

\* C20 as stated: the state is RUNNING after construction and load; only
\* handleInput changes it; PAUSED is left only back to RUNNING; and QUIT is
\* terminal: once the state is QUIT no later step changes it.
C20_RunStateTransitions ==
  [][/\ (frames = 0 /\ steps = 0) => chip8.state = "RUNNING"
     /\ chip8'.state # chip8.state => polls
     /\ (chip8.state = "PAUSED" /\ chip8'.state # "PAUSED") => chip8'.state = "RUNNING"
     /\ chip8.state = "QUIT" => chip8'.state = "QUIT"]_vars

\* C20 amended: the state is RUNNING after construction and load; only
\* handleInput changes it; PAUSED is left back to RUNNING or, by the quit
\* signal, to QUIT; and QUIT is terminal.
C20_RunStateTransitionsWithQuitFromPause ==
  [][/\ (frames = 0 /\ steps = 0) => chip8.state = "RUNNING"
     /\ chip8'.state # chip8.state => polls
     /\ (chip8.state = "PAUSED" /\ chip8'.state # "PAUSED") =>
          chip8'.state \in {"RUNNING", "QUIT"}
     /\ chip8.state = "QUIT" => chip8'.state = "QUIT"]_vars

\* C20 witness: the quit signal arrived while paused, in the second poll,
\* before any instruction had been executed, and main has left its loop
\* with the state still QUIT.
C20_QuitWhilePaused ==
  /\ pc = "cleanup"
  /\ frames = 2
  /\ steps = instructionsPerFrame
  /\ chip8.state = "QUIT"

\* The keys held down.
pressedKeys == {k \in 0..(KEYS - 1) : chip8.keypad[k] # 0}

\* C21: a call that executes FX0A while no key is pressed leaves the
\* registers, ram, the index register, the stack, the timers, the frame
\* buffer and draw unchanged and the program counter at the address of the
\* FX0A, so that the next call fetches it again; a call that executes it
\* while a key is pressed stores a pressed key in VX, changes nothing else
\* and leaves the program counter at the following instruction.
C21_KeyWaitSpinsThenStores ==
  [][(executes /\ fetchedFamily = 15 /\ fetched.kk = 10) =>
       IF pressedKeys = {}
       THEN chip8' = [chip8 EXCEPT !.instruction = fetched]
       ELSE /\ chip8'.V[fetched.x] \in pressedKeys
            /\ chip8' = [chip8 EXCEPT !.instruction = fetched,
                                      !.programCounter = chip8.programCounter + 2,
                                      !.V[fetched.x] = chip8'.V[fetched.x]]]_vars

\* C21 witness: after a frame of calls with no key pressed, all of them the
\* FX0A at 0x200, key 5 went down and the next call has stored it in V3
\* and moved on to 0x202.
C21_WaitedThenStoredKey ==
  /\ steps = instructionsPerFrame + 1
  /\ Shr(chip8.instruction.raw, 12) = 15 /\ chip8.instruction.kk = 10
  /\ chip8.instruction.x = 3
  /\ chip8.V[3] = 5
  /\ chip8.programCounter = programEntryPoint + 2

\* C22: DXYN wraps only the origin and clips the rest: with the origin
\* (VX mod 64, VY mod 32), every cell a draw modifies has an index within
\* 0..2047, a column not left of the origin and a row not above it, and no
\* cell outside 0..2047 is ever written.
C22_DrawClipsAtTheEdges ==
  [][(executes /\ fetchedFamily = 13) =>
       /\ DOMAIN chip8'.frameBuffer \subseteq 0..(WINDOW_WIDTH * WINDOW_HEIGHT - 1)
       /\ \A p \in DOMAIN chip8.frameBuffer \cup DOMAIN chip8'.frameBuffer :
            At(chip8'.frameBuffer, p) # At(chip8.frameBuffer, p) =>
              /\ p % WINDOW_WIDTH >= originX
              /\ p \div WINDOW_WIDTH >= originY]_vars

\* C22 witness: the sprite rows 0x01, 0x18 drawn with VX = 60 and VY = 33
\* have lit the last pixel of row 2 and nothing else: the origin row is
\* 33 mod 32, and the bit that falls right of column 63 is dropped.
C22_ClippedAtRightEdge ==
  /\ steps = 4
  /\ Shr(chip8.instruction.raw, 12) = 13
  /\ chip8.V[0] = 60 /\ chip8.V[1] = 33
  /\ chip8.frameBuffer = (191 :> 16)

\* The steps of main that are the call of draw.
rendersFrame == pc = "for" /\ pc' = "sound"

\* C23: draw tracks the changes not yet rendered: whenever the lit pixels
\* of the frame buffer differ from the ones rendered last, draw is set;
\* every 00E0 and every DXYN sets it; no other instruction sets or clears
\* it; and it is cleared only by the draw step of main, which renders the
\* frame buffer.
C23_RedrawFlagTracksChanges ==
  [][/\ litPixels(chip8) # screen => chip8.draw
     /\ litPixels(chip8') # screen' => chip8'.draw
     /\ (executes /\ (fetched.raw = CLS \/ fetchedFamily = 13)) => chip8'.draw
     /\ (executes /\ ~(fetched.raw = CLS \/ fetchedFamily = 13)) =>
          chip8'.draw = chip8.draw
     /\ (chip8.draw /\ ~chip8'.draw) =>
          (rendersFrame /\ screen' = litPixels(chip8))]_vars

\* C24: with the destination X = 0xF, after each of 8XY4, 8XY5, 8XY6, 8XY7
\* and 8XYE register 0xF holds the flag computed from the operand values
\* held before the instruction: the carry, the no-borrow or the bit
\* shifted out; the result written to the same register does not replace
\* it.
C24_FlagWinsWhenDestinationIsVF ==
  [][(executes /\ fetchedFamily = 8 /\ fetched.x = 15) =>
       LET vx == chip8.V[15]
           vy == chip8.V[fetched.y]
       IN /\ fetched.n = 4 => chip8'.V[15] = bool(vx + vy > 255)
          /\ fetched.n = 5 => chip8'.V[15] = bool(vx >= vy)
          /\ fetched.n = 6 => chip8'.V[15] = vx % 2
          /\ fetched.n = 7 => chip8'.V[15] = bool(vy >= vx)
          /\ fetched.n = 14 => chip8'.V[15] = vx \div 128]_vars

\* C25: every keypad access of the interpreter uses an index in 0..15: the
\* key skips EX9E and EXA1 read keypad[VX] with VX within 0..15, FX0A
\* stores only key indices within 0..15, and no instruction writes the
\* keypad.
C25_KeypadIndicesWithinSixteen ==
  [][executes =>
       /\ (fetchedFamily = 14 /\ fetched.kk \in {158, 161}) =>
            chip8.V[fetched.x] \in 0..(KEYS - 1)
       /\ (fetchedFamily = 15 /\ fetched.kk = 10
             /\ chip8'.programCounter # chip8.programCounter) =>
            chip8'.V[fetched.x] \in 0..(KEYS - 1)
       /\ chip8'.keypad = chip8.keypad]_vars

=============================================================================
